---- MODULE Spec2Model ----
(***************************************************************************)
(* A model of the booking engine of Dahu.py: the rooms, bookings,          *)
(* booking_rooms, maintenance_blocks, settings(invoice_seq) and audit_logs *)
(* tables, and the handlers of create_booking_panel, booking_panel and     *)
(* room_controls that change them.                                         *)
(*                                                                         *)
(* Dates are day numbers 0..MaxDay.  The clock (dt.date.today() and        *)
(* dt.datetime.utcnow()) is the counter now, in months.  An invoice number *)
(* "F-<YYYYMM>-<seq:05d>" is the pair <<month, seq>>; the empty string, a   *)
(* NULL paid_at and the None of an optional argument are the empty         *)
(* sequence or the empty set.                                              *)
(***************************************************************************)
EXTENDS Integers, Sequences, FiniteSets, TLC

\* ------------------------------------------------------------------ bounds
MaxDay == 3
MaxBookings == 2
MaxLog == 3
MaxNow == 1

\* ------------------------------------------------------------------ domains
Rooms == {1, 2}
Days == 0..MaxDay
Clients == {"c1"}
NoClient == "none"
Deposits == {0, 50}
PaymentMethods == {"", "CB"}
ExtrasAmounts == {0, 10}
User == "admin"
Sessions == {"s1", "s2"}

VARIABLES
    rooms,            \* rooms table: room id -> [price, maintenance]
    bookings,         \* bookings table: booking id -> row
    booking_rooms,    \* booking_rooms table: set of rows
    blocks,           \* maintenance_blocks table: set of rows
    invoice_seq,      \* settings["invoice_seq"], as the integer it encodes
    audit_logs,       \* audit_logs table, in insertion order
    next_booking_id,  \* the bookings.id sequence
    now,              \* the clock
    issued,           \* every value next_invoice_number has returned, in order
    last,             \* what the last handler reported to its caller
    sess              \* the script runs in progress, one per browser session

vars == <<rooms, bookings, booking_rooms, blocks, invoice_seq, audit_logs,
          next_booking_id, now, issued, last, sess>>

db == <<rooms, bookings, booking_rooms, blocks, invoice_seq, audit_logs,
        next_booking_id, issued>>

\* ------------------------------------------------------------------ helpers
Range(s) == {s[i] : i \in 1..Len(s)}

\* The values a multiselect can return: sequences of distinct rooms.
RoomSeqs ==
    {s \in UNION {[1..n -> Rooms] : n \in 0..Cardinality(Rooms)} :
        \A i, j \in 1..Len(s) : i # j => s[i] # s[j]}

\* What a handler run amounts to for its caller: the operation, its outcome,
\* the booking it acted on, the rooms selected in the form, the st.error lines
\* naming rooms, and the invoice number displayed.
Result(op, outcome, bid, sel, msg, ret) ==
    [op |-> op, outcome |-> outcome, bid |-> bid, sel |-> sel, msg |-> msg,
     ret |-> ret]

AuditLog(username, action, meta) ==
    [username |-> username, action |-> action, meta |-> meta]

\* Variant: the entry takes the place of the latest one.
log_Overwrites(username, action, meta) ==
    audit_logs' = [audit_logs EXCEPT
                        ![Len(audit_logs)] = AuditLog(username, action, meta)]

\* log(db, username, action, meta): one row appended and committed.
log(username, action, meta) ==
    audit_logs' = Append(audit_logs, AuditLog(username, action, meta))

\* The rows of booking b (Booking.rooms).
RoomsOf(b) == {br \in booking_rooms : br.booking_id = b}

RoomIdsOf(b) == {br.room_id : br \in RoomsOf(b)}

\* ------------------------------------------------------------------ queries
\* Variant: only bookings that start inside the range count.
booking_conflicts_for_room_StartInside(room_id, checkin, checkout, exclude_booking_id) ==
    \E br \in booking_rooms :
        /\ br.booking_id \in DOMAIN bookings
        /\ br.room_id = room_id
        /\ bookings[br.booking_id].checkin >= checkin
        /\ bookings[br.booking_id].checkin < checkout
        /\ br.booking_id \notin exclude_booking_id

\* Variant: the bounds are compared inclusively.
booking_conflicts_for_room_Closed(room_id, checkin, checkout, exclude_booking_id) ==
    \E br \in booking_rooms :
        /\ br.booking_id \in DOMAIN bookings
        /\ br.room_id = room_id
        /\ bookings[br.booking_id].checkout >= checkin
        /\ bookings[br.booking_id].checkin <= checkout
        /\ br.booking_id \notin exclude_booking_id

\* Variant: the edited booking is not left out.
booking_conflicts_for_room_NoExclude(room_id, checkin, checkout, exclude_booking_id) ==
    \E br \in booking_rooms :
        /\ br.booking_id \in DOMAIN bookings
        /\ br.room_id = room_id
        /\ bookings[br.booking_id].checkout > checkin
        /\ bookings[br.booking_id].checkin < checkout

booking_conflicts_for_room(room_id, checkin, checkout, exclude_booking_id) ==
    \E br \in booking_rooms :
        /\ br.booking_id \in DOMAIN bookings
        /\ br.room_id = room_id
        /\ bookings[br.booking_id].checkout > checkin
        /\ bookings[br.booking_id].checkin < checkout
        /\ br.booking_id \notin exclude_booking_id

\* Variant: the bounds are compared inclusively.
room_blocked_in_range_Closed(room_id, checkin, checkout) ==
    LET found == {bl \in blocks :
                    /\ bl.room_id = room_id
                    /\ bl.end >= checkin
                    /\ bl.start <= checkout}
    IN  Cardinality(found) > 0

room_blocked_in_range(room_id, checkin, checkout) ==
    LET found == {bl \in blocks :
                    /\ bl.room_id = room_id
                    /\ bl.end > checkin
                    /\ bl.start < checkout}
    IN  Cardinality(found) > 0

\* Variant: the blocks are not looked at.
CreateUnavailable_NoBlocks(rid, checkin, checkout) ==
    \/ rooms[rid].maintenance
    \/ booking_conflicts_for_room(rid, checkin, checkout, {})

\* The condition of the create handler's loop, for one room.
CreateUnavailable(rid, checkin, checkout) ==
    \/ rooms[rid].maintenance
    \/ room_blocked_in_range(rid, checkin, checkout)
    \/ booking_conflicts_for_room(rid, checkin, checkout, {})

\* Variant: the flag of the room is not looked at.
Problem_NoFlag(rid, checkin, checkout, exclude) ==
    IF room_blocked_in_range(rid, checkin, checkout) THEN "periode travaux"
    ELSE IF booking_conflicts_for_room(rid, checkin, checkout, exclude)
         THEN "deja reservee"
    ELSE ""

\* The reason the panels give for a room, "" when it is available.
Problem(rid, checkin, checkout, exclude) ==
    IF rooms[rid].maintenance THEN "travaux global"
    ELSE IF room_blocked_in_range(rid, checkin, checkout) THEN "periode travaux"
    ELSE IF booking_conflicts_for_room(rid, checkin, checkout, exclude)
         THEN "deja reservee"
    ELSE ""

\* The list st.error shows above the create button: every selected room that
\* is unavailable, with its reason, in selection order.
RECURSIVE CreateProblems(_, _, _)
CreateProblems(sel, checkin, checkout) ==
    IF Len(sel) = 0 THEN <<>>
    ELSE LET p == Problem(Head(sel), checkin, checkout, {})
             rest == CreateProblems(Tail(sel), checkin, checkout)
         IN  IF p = "" THEN rest ELSE <<(<<Head(sel), p>>)>> \o rest

\* ------------------------------------------------------------------ sessions
\* A script run: where it stands (pc), the form's values (b, sel, ci, co), the
\* room the availability loop is at (i), the ORM objects it loaded when it
\* rendered (rooms_seen, row, rows), the counter value it read (seq) and what
\* it showed when it ended (result).
Run(pc, b, sel, ci, co, i, rooms_seen, row, rows, seq, result) ==
    [pc |-> pc, b |-> b, sel |-> sel, ci |-> ci, co |-> co, i |-> i,
     rooms_seen |-> rooms_seen, row |-> row, rows |-> rows, seq |-> seq,
     result |-> result]

Idle(result) == Run("idle", 0, <<>>, 0, 0, 0, <<>>, <<>>, {}, 0, result)

\* The sessions whose run is between its begin and its end.
Running == {s \in Sessions : sess[s].pc # "idle"}

\* ------------------------------------------------------------------ init
db_init ==
    /\ rooms = [r \in Rooms |-> [price |-> 95, maintenance |-> FALSE]]
    /\ bookings = <<>>
    /\ booking_rooms = {}
    /\ blocks = {}
    /\ invoice_seq = 1
    /\ audit_logs = <<AuditLog("system", "INIT", <<"admin">>),
                      AuditLog("system", "INIT", <<"rooms">>)>>
    /\ next_booking_id = 1

Init ==
    /\ db_init
    /\ now = 0
    /\ issued = <<>>
    /\ last = Result("init", "ok", 0, <<>>, <<>>, <<>>)
    /\ sess = [s \in Sessions |-> Idle(Result("init", "ok", 0, <<>>, <<>>, <<>>))]

\* The model stops logging after MaxLog handler entries.
LogRoom == Len(audit_logs) < MaxLog + 2

\* ------------------------------------------------------------------ create
Booking(client, checkin, checkout, deposit, payment_method) ==
    [client_id |-> client, checkin |-> checkin, checkout |-> checkout,
     extras |-> 0, deposit |-> deposit, payment_method |-> payment_method,
     invoice_number |-> <<>>, paid |-> FALSE, paid_at |-> <<>>,
     created_by |-> User]

BookingRoom(booking_id, room_id, price_per_night) ==
    [booking_id |-> booking_id, room_id |-> room_id,
     price_per_night |-> price_per_night]

\* Variant: the dates are not looked at.
CreateDisabled_NoDates(client, sel, checkin, checkout) ==
    (client = NoClient) \/ (Len(sel) = 0)

CreateDisabled(client, sel, checkin, checkout) ==
    (checkout <= checkin) \/ (client = NoClient) \/ (Len(sel) = 0)

\* How a click on "Creer le dossier" ends: the button is disabled, the
\* handler returns at an unavailable room, or it goes on to write.
CreateOutcome(client, sel, checkin, checkout) ==
    IF CreateDisabled(client, sel, checkin, checkout) THEN "disabled"
    ELSE IF \E i \in 1..Len(sel) : CreateUnavailable(sel[i], checkin, checkout)
         THEN "refused"
    ELSE "ok"

\* Variant: a refusal is written to the audit log.
CreateBooking_LogsRefusal(client, sel, checkin, checkout, deposit, payment_method) ==
    LET shown == IF checkout > checkin /\ Len(sel) > 0
                 THEN CreateProblems(sel, checkin, checkout) ELSE <<>>
        bid == next_booking_id
        outcome == CreateOutcome(client, sel, checkin, checkout)
    IN  IF outcome = "disabled"
        THEN /\ last' = Result("create", "disabled", 0, sel, <<>>, <<>>)
             /\ UNCHANGED <<db, now, sess>>
        ELSE IF outcome = "refused"
        THEN /\ LogRoom
             /\ log(User, "BOOKING_CREATE_REFUSED", <<>>)
             /\ last' = Result("create", "refused", 0, sel, shown, <<>>)
             /\ UNCHANGED <<rooms, bookings, booking_rooms, blocks,
                            invoice_seq, next_booking_id, issued, now, sess>>
        ELSE /\ next_booking_id <= MaxBookings
             /\ LogRoom
             /\ bookings' = bookings @@
                    (bid :> Booking(client, checkin, checkout, deposit,
                                    payment_method))
             /\ booking_rooms' = booking_rooms \cup
                    {BookingRoom(bid, sel[i], rooms[sel[i]].price) :
                        i \in 1..Len(sel)}
             /\ next_booking_id' = bid + 1
             /\ log(User, "BOOKING_CREATE", <<"booking", bid>>)
             /\ last' = Result("create", "ok", bid, sel, shown, <<>>)
             /\ UNCHANGED <<rooms, blocks, invoice_seq, issued, now, sess>>

\* The "Creer le dossier" button of create_booking_panel.
CreateBooking(client, sel, checkin, checkout, deposit, payment_method) ==
    LET shown == IF checkout > checkin /\ Len(sel) > 0
                 THEN CreateProblems(sel, checkin, checkout) ELSE <<>>
        bid == next_booking_id
        outcome == CreateOutcome(client, sel, checkin, checkout)
    IN  IF outcome = "disabled"
        THEN /\ last' = Result("create", "disabled", 0, sel, <<>>, <<>>)
             /\ UNCHANGED <<db, now, sess>>
        ELSE IF outcome = "refused"
        THEN /\ last' = Result("create", "refused", 0, sel, shown, <<>>)
             /\ UNCHANGED <<db, now, sess>>
        ELSE /\ next_booking_id <= MaxBookings
             /\ LogRoom
             /\ bookings' = bookings @@
                    (bid :> Booking(client, checkin, checkout, deposit,
                                    payment_method))
             /\ booking_rooms' = booking_rooms \cup
                    {BookingRoom(bid, sel[i], rooms[sel[i]].price) :
                        i \in 1..Len(sel)}
             /\ next_booking_id' = bid + 1
             /\ log(User, "BOOKING_CREATE", <<"booking", bid>>)
             /\ last' = Result("create", "ok", bid, sel, shown, <<>>)
             /\ UNCHANGED <<rooms, blocks, invoice_seq, issued, now, sess>>

\* ------------------------------------------------------------------ update
\* The first room of the selection the edit handler stops at, 0 when none.
RECURSIVE FirstProblem(_, _, _, _)
FirstProblem(sel, checkin, checkout, exclude) ==
    IF Len(sel) = 0 THEN <<>>
    ELSE LET p == Problem(Head(sel), checkin, checkout, exclude)
         IN  IF p # "" THEN <<(<<Head(sel), p>>)>>
             ELSE FirstProblem(Tail(sel), checkin, checkout, exclude)

\* Variant: the edited booking is not left out of the check.
UpdateOutcome_NoExclude(b, sel, new_ci, new_co) ==
    IF new_co <= new_ci THEN "invalid"
    ELSE IF FirstProblem(sel, new_ci, new_co, {}) # <<>> THEN "refused"
    ELSE "ok"

\* How a click on "Enregistrer modifications" ends: at the date check, at
\* the first unavailable room, or with the writes.
UpdateOutcome(b, sel, new_ci, new_co) ==
    IF new_co <= new_ci THEN "invalid"
    ELSE IF FirstProblem(sel, new_ci, new_co, {b}) # <<>> THEN "refused"
    ELSE "ok"

\* Variant: every selected room gets a new row at the room's current price.
UpdateBooking_Resnapshot(b, sel, new_ci, new_co, deposit, payment_method) ==
    LET problem == FirstProblem(sel, new_ci, new_co, {b})
        outcome == UpdateOutcome(b, sel, new_ci, new_co)
        added == {BookingRoom(b, rid, rooms[rid].price) : rid \in Range(sel)}
    IN  /\ b \in DOMAIN bookings
        /\ IF outcome = "invalid"
           THEN /\ last' = Result("update", "invalid", b, sel, <<>>, <<>>)
                /\ UNCHANGED <<db, now, sess>>
           ELSE IF outcome = "refused"
           THEN /\ last' = Result("update", "refused", b, sel, problem, <<>>)
                /\ UNCHANGED <<db, now, sess>>
           ELSE /\ LogRoom
                /\ bookings' = [bookings EXCEPT
                        ![b].checkin = new_ci,
                        ![b].checkout = new_co,
                        ![b].deposit = deposit,
                        ![b].payment_method = payment_method]
                /\ booking_rooms' = (booking_rooms \ RoomsOf(b)) \cup added
                /\ log(User, "BOOKING_UPDATE", <<"booking", b>>)
                /\ last' = Result("update", "ok", b, sel, <<>>, <<>>)
                /\ UNCHANGED <<rooms, blocks, invoice_seq, next_booking_id,
                               issued, now, sess>>

\* Variant: a row is added for every selected room, held already or not.
UpdateBooking_AddsAll(b, sel, new_ci, new_co, deposit, payment_method) ==
    LET problem == FirstProblem(sel, new_ci, new_co, {b})
        outcome == UpdateOutcome(b, sel, new_ci, new_co)
        kept == {br \in RoomsOf(b) : br.room_id \in Range(sel)}
        added == {BookingRoom(b, rid, rooms[rid].price) : rid \in Range(sel)}
    IN  /\ b \in DOMAIN bookings
        /\ IF outcome = "invalid"
           THEN /\ last' = Result("update", "invalid", b, sel, <<>>, <<>>)
                /\ UNCHANGED <<db, now, sess>>
           ELSE IF outcome = "refused"
           THEN /\ last' = Result("update", "refused", b, sel, problem, <<>>)
                /\ UNCHANGED <<db, now, sess>>
           ELSE /\ LogRoom
                /\ bookings' = [bookings EXCEPT
                        ![b].checkin = new_ci,
                        ![b].checkout = new_co,
                        ![b].deposit = deposit,
                        ![b].payment_method = payment_method]
                /\ booking_rooms' = (booking_rooms \ RoomsOf(b)) \cup kept \cup added
                /\ log(User, "BOOKING_UPDATE", <<"booking", b>>)
                /\ last' = Result("update", "ok", b, sel, <<>>, <<>>)
                /\ UNCHANGED <<rooms, blocks, invoice_seq, next_booking_id,
                               issued, now, sess>>

\* Variant: the extras are set back to zero.
UpdateBooking_ResetsExtras(b, sel, new_ci, new_co, deposit, payment_method) ==
    LET problem == FirstProblem(sel, new_ci, new_co, {b})
        outcome == UpdateOutcome(b, sel, new_ci, new_co)
        kept == {br \in RoomsOf(b) : br.room_id \in Range(sel)}
        existing == {br.room_id : br \in kept}
        added == {BookingRoom(b, rid, rooms[rid].price) :
                    rid \in Range(sel) \ existing}
    IN  /\ b \in DOMAIN bookings
        /\ IF outcome = "invalid"
           THEN /\ last' = Result("update", "invalid", b, sel, <<>>, <<>>)
                /\ UNCHANGED <<db, now, sess>>
           ELSE IF outcome = "refused"
           THEN /\ last' = Result("update", "refused", b, sel, problem, <<>>)
                /\ UNCHANGED <<db, now, sess>>
           ELSE /\ LogRoom
                /\ bookings' = [bookings EXCEPT
                        ![b].checkin = new_ci,
                        ![b].checkout = new_co,
                        ![b].deposit = deposit,
                        ![b].payment_method = payment_method,
                        ![b].extras = 0]
                /\ booking_rooms' = (booking_rooms \ RoomsOf(b)) \cup kept \cup added
                /\ log(User, "BOOKING_UPDATE", <<"booking", b>>)
                /\ last' = Result("update", "ok", b, sel, <<>>, <<>>)
                /\ UNCHANGED <<rooms, blocks, invoice_seq, next_booking_id,
                               issued, now, sess>>

\* The "Enregistrer modifications" button of booking_panel.
UpdateBooking(b, sel, new_ci, new_co, deposit, payment_method) ==
    LET problem == FirstProblem(sel, new_ci, new_co, {b})
        outcome == UpdateOutcome(b, sel, new_ci, new_co)
        kept == {br \in RoomsOf(b) : br.room_id \in Range(sel)}
        existing == {br.room_id : br \in kept}
        added == {BookingRoom(b, rid, rooms[rid].price) :
                    rid \in Range(sel) \ existing}
    IN  /\ b \in DOMAIN bookings
        /\ IF outcome = "invalid"
           THEN /\ last' = Result("update", "invalid", b, sel, <<>>, <<>>)
                /\ UNCHANGED <<db, now, sess>>
           ELSE IF outcome = "refused"
           THEN /\ last' = Result("update", "refused", b, sel, problem, <<>>)
                /\ UNCHANGED <<db, now, sess>>
           ELSE /\ LogRoom
                /\ bookings' = [bookings EXCEPT
                        ![b].checkin = new_ci,
                        ![b].checkout = new_co,
                        ![b].deposit = deposit,
                        ![b].payment_method = payment_method]
                /\ booking_rooms' = (booking_rooms \ RoomsOf(b)) \cup kept \cup added
                /\ log(User, "BOOKING_UPDATE", <<"booking", b>>)
                /\ last' = Result("update", "ok", b, sel, <<>>, <<>>)
                /\ UNCHANGED <<rooms, blocks, invoice_seq, next_booking_id,
                               issued, now, sess>>

\* Variant: the rows of Booking.rooms are left behind.
DeleteBooking_NoCascade(b) ==
    /\ b \in DOMAIN bookings
    /\ LogRoom
    /\ bookings' = [x \in DOMAIN bookings \ {b} |-> bookings[x]]
    /\ log(User, "BOOKING_DELETE", <<"booking", b>>)
    /\ last' = Result("delete", "ok", b, <<>>, <<>>, <<>>)
    /\ UNCHANGED <<rooms, booking_rooms, blocks, invoice_seq, next_booking_id,
                   issued, now, sess>>

\* Variant: the audit entry is written and nothing is removed.
DeleteBooking_KeepsRows(b) ==
    /\ b \in DOMAIN bookings
    /\ LogRoom
    /\ log(User, "BOOKING_DELETE", <<"booking", b>>)
    /\ last' = Result("delete", "ok", b, <<>>, <<>>, <<>>)
    /\ UNCHANGED <<rooms, bookings, booking_rooms, blocks, invoice_seq,
                   next_booking_id, issued, now, sess>>

\* ------------------------------------------------------------------ delete
\* The "Supprimer dossier" button of booking_panel; Booking.rooms cascades.
DeleteBooking(b) ==
    /\ b \in DOMAIN bookings
    /\ LogRoom
    /\ bookings' = [x \in DOMAIN bookings \ {b} |-> bookings[x]]
    /\ booking_rooms' = booking_rooms \ RoomsOf(b)
    /\ log(User, "BOOKING_DELETE", <<"booking", b>>)
    /\ last' = Result("delete", "ok", b, <<>>, <<>>, <<>>)
    /\ UNCHANGED <<rooms, blocks, invoice_seq, next_booking_id, issued, now, sess>>

\* ------------------------------------------------------------------ totals
Max(a, b) == IF a >= b THEN a ELSE b

\* nights_count(ci, co): max(0, (co - ci).days).
nights_count(ci, co) == Max(0, co - ci)

\* sum(float(br.price_per_night) for br in b.rooms).
RECURSIVE SumPrices(_)
SumPrices(rows) ==
    IF rows = {} THEN 0
    ELSE LET br == CHOOSE x \in rows : TRUE
         IN  br.price_per_night + SumPrices(rows \ {br})

\* The amounts booking_panel shows for booking b.
total_rooms(b) ==
    SumPrices(RoomsOf(b)) * nights_count(bookings[b].checkin, bookings[b].checkout)

total(b) == total_rooms(b) + bookings[b].extras

\* Variant: the amount left is not floored at zero.
remaining_Signed(b) == total(b) - bookings[b].deposit

remaining(b) == Max(0, total(b) - bookings[b].deposit)

\* ------------------------------------------------------------------ invoices
\* f"F-{today:%Y%m}-{seq:05d}": the month and the counter value.
InvoiceNumber(month, seq) == <<month, seq>>

\* Variant: the counter is not written back.
next_invoice_number_NoBump(inv) ==
    LET seq == invoice_seq
    IN  /\ inv = InvoiceNumber(now, seq)
        /\ invoice_seq' = seq
        /\ issued' = Append(issued, inv)

\* next_invoice_number(db), returning inv: the counter is read, the number is
\* formatted from it, the counter is written back one higher and committed.
next_invoice_number(inv) ==
    LET seq == invoice_seq
    IN  /\ inv = InvoiceNumber(now, seq)
        /\ invoice_seq' = seq + 1
        /\ issued' = Append(issued, inv)

\* Variant: the button is there whether b is paid or not.
MarkPaid_NoGuard(b) ==
    /\ b \in DOMAIN bookings
    /\ LogRoom
    /\ IF bookings[b].invoice_number = <<>>
       THEN \E inv \in {InvoiceNumber(now, invoice_seq)} :
                /\ next_invoice_number(inv)
                /\ bookings' = [bookings EXCEPT
                        ![b].paid = TRUE,
                        ![b].paid_at = <<now>>,
                        ![b].invoice_number = inv]
       ELSE /\ bookings' = [bookings EXCEPT
                        ![b].paid = TRUE,
                        ![b].paid_at = <<now>>]
            /\ UNCHANGED <<invoice_seq, issued>>
    /\ log(User, "BOOKING_PAID",
           <<"booking", b, "invoice", bookings'[b].invoice_number>>)
    /\ last' = Result("pay", IF bookings[b].paid THEN "already_paid" ELSE "ok",
                      b, <<>>, <<>>, bookings'[b].invoice_number)
    /\ UNCHANGED <<rooms, booking_rooms, blocks, next_booking_id, now, sess>>

\* The "Encaisser" button of booking_panel, shown only while b is unpaid; on
\* a paid booking the panel says so and shows the invoice number it holds.
MarkPaid(b) ==
    /\ b \in DOMAIN bookings
    /\ IF ~bookings[b].paid
       THEN /\ LogRoom
            /\ IF bookings[b].invoice_number = <<>>
               THEN \E inv \in {InvoiceNumber(now, invoice_seq)} :
                        /\ next_invoice_number(inv)
                        /\ bookings' = [bookings EXCEPT
                                ![b].paid = TRUE,
                                ![b].paid_at = <<now>>,
                                ![b].invoice_number = inv]
               ELSE /\ bookings' = [bookings EXCEPT
                                ![b].paid = TRUE,
                                ![b].paid_at = <<now>>]
                    /\ UNCHANGED <<invoice_seq, issued>>
            /\ log(User, "BOOKING_PAID",
                   <<"booking", b, "invoice", bookings'[b].invoice_number>>)
            /\ last' = Result("pay", "ok", b, <<>>, <<>>, bookings'[b].invoice_number)
            /\ UNCHANGED <<rooms, booking_rooms, blocks, next_booking_id, now, sess>>
       ELSE /\ last' = Result("pay", "already_paid", b, <<>>, <<>>,
                              bookings[b].invoice_number)
            /\ UNCHANGED <<db, now, sess>>

\* The "Facture PDF" button of booking_panel.
InvoicePdf(b) ==
    /\ b \in DOMAIN bookings
    /\ IF bookings[b].invoice_number = <<>>
       THEN \E inv \in {InvoiceNumber(now, invoice_seq)} :
                /\ next_invoice_number(inv)
                /\ bookings' = [bookings EXCEPT ![b].invoice_number = inv]
       ELSE UNCHANGED <<bookings, invoice_seq, issued>>
    /\ last' = Result("pdf", "ok", b, <<>>, <<>>, bookings'[b].invoice_number)
    /\ UNCHANGED <<rooms, booking_rooms, blocks, audit_logs, next_booking_id,
                   now, sess>>

\* The "Extras" number input of booking_panel.
SetExtras(b, new_extras) ==
    /\ b \in DOMAIN bookings
    /\ new_extras # bookings[b].extras
    /\ LogRoom
    /\ bookings' = [bookings EXCEPT ![b].extras = new_extras]
    /\ log(User, "BOOKING_EXTRAS", <<"booking", b, "extras", new_extras>>)
    /\ last' = Result("extras", "ok", b, <<>>, <<>>, <<>>)
    /\ UNCHANGED <<rooms, booking_rooms, blocks, invoice_seq, next_booking_id,
                   issued, now, sess>>

\* The calendar month changes.
Tick ==
    /\ now < MaxNow
    /\ now' = now + 1
    /\ UNCHANGED <<db, last, sess>>

\* ------------------------------------------------------------------ rooms
\* The "Travaux (global)" toggle of room_controls.
SetMaintenance(r, maint) ==
    /\ maint # rooms[r].maintenance
    /\ LogRoom
    /\ rooms' = [rooms EXCEPT ![r].maintenance = maint]
    /\ log(User, "ROOM_MAINTENANCE_GLOBAL", <<"room", r, maint>>)
    /\ last' = Result("maintenance", "ok", 0, <<>>, <<>>, <<>>)
    /\ UNCHANGED <<bookings, booking_rooms, blocks, invoice_seq,
                   next_booking_id, issued, now, sess>>

\* Variant: the rows of the bookings that hold the room follow its price.
SetPrice_Retroactive(r, price) ==
    /\ price # rooms[r].price
    /\ LogRoom
    /\ rooms' = [rooms EXCEPT ![r].price = price]
    /\ booking_rooms' =
            {IF br.room_id = r THEN [br EXCEPT !.price_per_night = price]
             ELSE br : br \in booking_rooms}
    /\ log(User, "ROOM_PRICE", <<"room", r, price>>)
    /\ last' = Result("price", "ok", 0, <<>>, <<>>, <<>>)
    /\ UNCHANGED <<bookings, blocks, invoice_seq, next_booking_id, issued,
                   now, sess>>

\* The "Prix / nuit" number input of room_controls.
SetPrice(r, price) ==
    /\ price # rooms[r].price
    /\ LogRoom
    /\ rooms' = [rooms EXCEPT ![r].price = price]
    /\ log(User, "ROOM_PRICE", <<"room", r, price>>)
    /\ last' = Result("price", "ok", 0, <<>>, <<>>, <<>>)
    /\ UNCHANGED <<bookings, booking_rooms, blocks, invoice_seq,
                   next_booking_id, issued, now, sess>>

\* The "Enregistrer chambre" button of settings_page: the price and the flag
\* are written as the form holds them.
SaveRoom(r, price, maint) ==
    /\ LogRoom
    /\ rooms' = [rooms EXCEPT ![r].price = price, ![r].maintenance = maint]
    /\ log(User, "ROOM_UPDATE", <<"room", r>>)
    /\ last' = Result("room", "ok", 0, <<>>, <<>>, <<>>)
    /\ UNCHANGED <<bookings, booking_rooms, blocks, invoice_seq,
                   next_booking_id, issued, now, sess>>

\* CreateBlock of the maintenance block store.
CreateBlock(r, start, end) ==
    /\ end > start
    /\ LogRoom
    /\ blocks' = blocks \cup {[room_id |-> r, start |-> start, end |-> end]}
    /\ log(User, "BLOCK_CREATE", <<"room", r, start, end>>)
    /\ last' = Result("block", "ok", 0, <<>>, <<>>, <<>>)
    /\ UNCHANGED <<rooms, bookings, booking_rooms, invoice_seq,
                   next_booking_id, issued, now, sess>>

\* ------------------------------------------------------------------ runs
\* The handlers again, one persistence round trip per step, for sessions that
\* run at the same time.  Every query reads the committed tables; a commit
\* writes a run's pending rows at once.  Rooms come from the session's
\* identity map, as loaded when the page was rendered.

\* The model starts no run that the bounds would keep from ending.
RunRoom ==
    /\ Len(audit_logs) + Cardinality(Running) < MaxLog + 2
    /\ next_booking_id + Cardinality(Running) <= MaxBookings + 1

\* create_booking_panel is run with the button clicked.
BeginCreate(s, client, sel, checkin, checkout) ==
    /\ sess[s].pc = "idle"
    /\ IF CreateDisabled(client, sel, checkin, checkout)
       THEN sess' = [sess EXCEPT ![s] =
                Idle(Result("create", "disabled", 0, sel, <<>>, <<>>))]
       ELSE /\ RunRoom
            /\ sess' = [sess EXCEPT ![s] =
                Run("create_check", 0, sel, checkin, checkout, 1, rooms,
                    <<>>, {}, 0, Result("create", "running", 0, sel, <<>>, <<>>))]
    /\ UNCHANGED <<db, now, last>>

\* One turn of the create handler's loop: the queries for room sel[i].
CreateCheck(s) ==
    LET run == sess[s]
        rid == run.sel[run.i]
    IN  /\ run.pc = "create_check"
        /\ IF \/ run.rooms_seen[rid].maintenance
              \/ room_blocked_in_range(rid, run.ci, run.co)
              \/ booking_conflicts_for_room(rid, run.ci, run.co, {})
           THEN sess' = [sess EXCEPT ![s] =
                    Idle(Result("create", "refused", 0, run.sel, <<>>, <<>>))]
           ELSE IF run.i < Len(run.sel)
           THEN sess' = [sess EXCEPT ![s].i = run.i + 1]
           ELSE sess' = [sess EXCEPT ![s].pc = "create_insert"]
        /\ UNCHANGED <<db, now, last>>

\* db.add(b), db.flush(), the BookingRoom rows, db.commit().
CreateInsert(s) ==
    LET run == sess[s]
        bid == next_booking_id
    IN  /\ run.pc = "create_insert"
        /\ bookings' = bookings @@ (bid :> Booking("c1", run.ci, run.co, 0, ""))
        /\ booking_rooms' = booking_rooms \cup
                {BookingRoom(bid, run.sel[k], run.rooms_seen[run.sel[k]].price) :
                    k \in 1..Len(run.sel)}
        /\ next_booking_id' = bid + 1
        /\ sess' = [sess EXCEPT ![s].pc = "create_log", ![s].b = bid]
        /\ UNCHANGED <<rooms, blocks, invoice_seq, audit_logs, issued, now, last>>

\* log(...) after the create handler's commit.
CreateLog(s) ==
    LET run == sess[s]
    IN  /\ run.pc = "create_log"
        /\ log(User, "BOOKING_CREATE", <<"booking", run.b>>)
        /\ sess' = [sess EXCEPT ![s] =
                Idle(Result("create", "ok", run.b, run.sel, <<>>, <<>>))]
        /\ UNCHANGED <<rooms, bookings, booking_rooms, blocks, invoice_seq,
                       next_booking_id, issued, now, last>>

\* booking_panel is run for booking b with "Enregistrer modifications" clicked.
BeginUpdate(s, b, sel, new_ci, new_co) ==
    /\ sess[s].pc = "idle"
    /\ b \in DOMAIN bookings
    /\ IF new_co <= new_ci
       THEN sess' = [sess EXCEPT ![s] =
                Idle(Result("update", "invalid", b, sel, <<>>, <<>>))]
       ELSE /\ RunRoom
            /\ sess' = [sess EXCEPT ![s] =
                Run(IF Len(sel) = 0 THEN "update_commit" ELSE "update_check",
                    b, sel, new_ci, new_co, 1, rooms, bookings[b], RoomsOf(b),
                    0, Result("update", "running", b, sel, <<>>, <<>>))]
    /\ UNCHANGED <<db, now, last>>

\* One turn of the edit handler's loop: the queries for room sel[i].
UpdateCheck(s) ==
    LET run == sess[s]
        rid == run.sel[run.i]
        reason ==
            IF run.rooms_seen[rid].maintenance THEN "travaux global"
            ELSE IF room_blocked_in_range(rid, run.ci, run.co)
                 THEN "periode travaux"
            ELSE IF booking_conflicts_for_room(rid, run.ci, run.co, {run.b})
                 THEN "deja reservee"
            ELSE ""
    IN  /\ run.pc = "update_check"
        /\ IF reason # ""
           THEN sess' = [sess EXCEPT ![s] =
                    Idle(Result("update", "refused", run.b, run.sel,
                                <<(<<rid, reason>>)>>, <<>>))]
           ELSE IF run.i < Len(run.sel)
           THEN sess' = [sess EXCEPT ![s].i = run.i + 1]
           ELSE sess' = [sess EXCEPT ![s].pc = "update_commit"]
        /\ UNCHANGED <<db, now, last>>

\* The edit handler's writes and db.commit(): the UPDATE of the columns that
\* differ from the loaded row, the DELETE of the loaded rows no longer
\* selected, the INSERT of the rooms not among the loaded rows.  A row that
\* is gone, or an insert that breaks uq_booking_room, fails the commit.
UpdateCommit(s) ==
    LET run == sess[s]
        b == run.b
        dropped == {br \in run.rows : br.room_id \notin Range(run.sel)}
        existing == {br.room_id : br \in run.rows \ dropped}
        added == {BookingRoom(b, rid, run.rooms_seen[rid].price) :
                    rid \in Range(run.sel) \ existing}
        stale ==
            \/ b \notin DOMAIN bookings
            \/ ~(dropped \subseteq booking_rooms)
            \/ \E br \in added : br.room_id \in RoomIdsOf(b)
    IN  /\ run.pc = "update_commit"
        /\ IF stale
           THEN /\ sess' = [sess EXCEPT ![s] =
                        Idle(Result("update", "error", b, run.sel, <<>>, <<>>))]
                /\ UNCHANGED <<db, now, last>>
           ELSE /\ bookings' = [bookings EXCEPT
                        ![b].checkin =
                            IF run.ci # run.row.checkin THEN run.ci ELSE @,
                        ![b].checkout =
                            IF run.co # run.row.checkout THEN run.co ELSE @]
                /\ booking_rooms' = (booking_rooms \ dropped) \cup added
                /\ sess' = [sess EXCEPT ![s].pc = "update_log"]
                /\ UNCHANGED <<rooms, blocks, invoice_seq, audit_logs,
                               next_booking_id, issued, now, last>>

\* log(...) after the edit handler's commit.
UpdateLog(s) ==
    LET run == sess[s]
    IN  /\ run.pc = "update_log"
        /\ log(User, "BOOKING_UPDATE", <<"booking", run.b>>)
        /\ sess' = [sess EXCEPT ![s] =
                Idle(Result("update", "ok", run.b, run.sel, <<>>, <<>>))]
        /\ UNCHANGED <<rooms, bookings, booking_rooms, blocks, invoice_seq,
                       next_booking_id, issued, now, last>>

\* booking_panel is run for booking b with "Encaisser" clicked: b.paid and
\* b.paid_at are set on the loaded object, then the invoice number is drawn
\* if the loaded object has none.
BeginPay(s, b) ==
    /\ sess[s].pc = "idle"
    /\ b \in DOMAIN bookings
    /\ IF bookings[b].paid
       THEN sess' = [sess EXCEPT ![s] =
                Idle(Result("pay", "already_paid", b, <<>>, <<>>,
                            bookings[b].invoice_number))]
       ELSE /\ RunRoom
            /\ sess' = [sess EXCEPT ![s] =
                Run(IF bookings[b].invoice_number = <<>>
                    THEN "pay_read" ELSE "pay_commit",
                    b, <<>>, 0, 0, 0, rooms, bookings[b], RoomsOf(b), 0,
                    Result("pay", "running", b, <<>>, <<>>,
                           bookings[b].invoice_number))]
    /\ UNCHANGED <<db, now, last>>

\* booking_panel is run for booking b with "Facture PDF" clicked.
BeginPdf(s, b) ==
    /\ sess[s].pc = "idle"
    /\ b \in DOMAIN bookings
    /\ IF bookings[b].invoice_number # <<>>
       THEN sess' = [sess EXCEPT ![s] =
                Idle(Result("pdf", "ok", b, <<>>, <<>>, bookings[b].invoice_number))]
       ELSE sess' = [sess EXCEPT ![s] =
                Run("pdf_read", b, <<>>, 0, 0, 0, rooms, bookings[b],
                    RoomsOf(b), 0, Result("pdf", "running", b, <<>>, <<>>, <<>>))]
    /\ UNCHANGED <<db, now, last>>

\* next_invoice_number, first half: db.get(Setting, "invoice_seq"), int(...)
\* and the formatting of the number.
SeqRead(s) ==
    LET run == sess[s]
    IN  /\ run.pc \in {"pay_read", "pdf_read"}
        /\ sess' = [sess EXCEPT
                ![s].pc = IF run.pc = "pay_read" THEN "pay_bump" ELSE "pdf_bump",
                ![s].seq = invoice_seq,
                ![s].result.ret = InvoiceNumber(now, invoice_seq)]
        /\ UNCHANGED <<db, now, last>>

\* next_invoice_number, second half: s.value = str(seq + 1), db.commit() and
\* the return.  The commit also writes what the run has pending: for a
\* payment, paid and paid_at of the booking; it fails when that row is gone.
SeqBump(s) ==
    LET run == sess[s]
        b == run.b
        paying == run.pc = "pay_bump"
    IN  /\ run.pc \in {"pay_bump", "pdf_bump"}
        /\ IF paying /\ b \notin DOMAIN bookings
           THEN /\ sess' = [sess EXCEPT ![s] =
                        Idle(Result("pay", "error", b, <<>>, <<>>, <<>>))]
                /\ UNCHANGED <<db, now, last>>
           ELSE /\ invoice_seq' = run.seq + 1
                /\ issued' = Append(issued, run.result.ret)
                /\ bookings' = IF paying
                               THEN [bookings EXCEPT ![b].paid = TRUE,
                                                     ![b].paid_at = <<now>>]
                               ELSE bookings
                /\ sess' = [sess EXCEPT ![s].pc =
                        IF paying THEN "pay_invoice" ELSE "pdf_invoice"]
                /\ UNCHANGED <<rooms, booking_rooms, blocks, audit_logs,
                               next_booking_id, now, last>>

\* b.invoice_number = <the number drawn>, db.commit().
InvoiceCommit(s) ==
    LET run == sess[s]
        b == run.b
        paying == run.pc = "pay_invoice"
    IN  /\ run.pc \in {"pay_invoice", "pdf_invoice"}
        /\ IF b \notin DOMAIN bookings
           THEN /\ sess' = [sess EXCEPT ![s] =
                        Idle(Result(IF paying THEN "pay" ELSE "pdf", "error", b, <<>>,
                                    <<>>, <<>>))]
                /\ UNCHANGED <<db, now, last>>
           ELSE /\ bookings' = [bookings EXCEPT
                        ![b].invoice_number = run.result.ret]
                /\ sess' = [sess EXCEPT ![s] =
                        IF paying THEN [run EXCEPT !.pc = "pay_log"]
                        ELSE Idle(Result("pdf", "ok", b, <<>>, <<>>, run.result.ret))]
                /\ UNCHANGED <<rooms, booking_rooms, blocks, invoice_seq,
                               audit_logs, next_booking_id, issued, now, last>>

\* db.commit() of a payment whose loaded booking already had its number.
PayCommit(s) ==
    LET run == sess[s]
        b == run.b
    IN  /\ run.pc = "pay_commit"
        /\ IF b \notin DOMAIN bookings
           THEN /\ sess' = [sess EXCEPT ![s] =
                        Idle(Result("pay", "error", b, <<>>, <<>>, <<>>))]
                /\ UNCHANGED <<db, now, last>>
           ELSE /\ bookings' = [bookings EXCEPT ![b].paid = TRUE,
                                                ![b].paid_at = <<now>>]
                /\ sess' = [sess EXCEPT ![s].pc = "pay_log"]
                /\ UNCHANGED <<rooms, booking_rooms, blocks, invoice_seq,
                               audit_logs, next_booking_id, issued, now, last>>

\* log(...) after the payment's commit; b.invoice_number is read back for it.
PayLog(s) ==
    LET run == sess[s]
        b == run.b
        inv == IF b \in DOMAIN bookings THEN bookings[b].invoice_number
               ELSE <<>>
    IN  /\ run.pc = "pay_log"
        /\ IF b \notin DOMAIN bookings
           THEN /\ sess' = [sess EXCEPT ![s] =
                        Idle(Result("pay", "error", b, <<>>, <<>>, <<>>))]
                /\ UNCHANGED <<db, now, last>>
           ELSE /\ log(User, "BOOKING_PAID", <<"booking", b, "invoice", inv>>)
                /\ sess' = [sess EXCEPT ![s] =
                        Idle(Result("pay", "ok", b, <<>>, <<>>, inv))]
                /\ UNCHANGED <<rooms, bookings, booking_rooms, blocks,
                               invoice_seq, next_booking_id, issued, now, last>>

\* ------------------------------------------------------------------ spec
\* The date pairs a caller submits: every range within Days, one empty range
\* and one inverted range.
DateInputs ==
    {d \in Days \X Days : d[2] > d[1]} \cup {<<1, 1>>, <<1, 0>>}

\* The create form's inputs: every well-formed request, and the malformed ones
\* (no client, no room, bad dates).
CreateInputs ==
    {<<c, sel, d>> \in Clients \X RoomSeqs \X DateInputs : Len(sel) > 0}
        \cup {<<NoClient, <<1>>, <<0, 1>>>>, <<"c1", <<>>, <<0, 1>>>>}

Create ==
    \E inp \in CreateInputs :
        CreateBooking(inp[1], inp[2], inp[3][1], inp[3][2], 0, "")

Update ==
    \E b \in DOMAIN bookings, sel \in RoomSeqs, d \in DateInputs :
        UpdateBooking(b, sel, d[1], d[2], bookings[b].deposit,
                      bookings[b].payment_method)

Delete == \E b \in DOMAIN bookings : DeleteBooking(b)

Maintenance == \E r \in Rooms, maint \in BOOLEAN : SetMaintenance(r, maint)

\* The periods blocked in these runs start after the first night.
BlockInputs == {d \in DateInputs : d[1] = 1}

Block == \E r \in Rooms, d \in BlockInputs : CreateBlock(r, d[1], d[2])

Pay == \E b \in DOMAIN bookings : MarkPaid(b)

Pdf == \E b \in DOMAIN bookings : InvoicePdf(b)

Extras == \E b \in DOMAIN bookings, x \in ExtrasAmounts : SetExtras(b, x)

\* The requests of the billing runs: one room, two adjacent nights.
BillingInputs ==
    {<<c, sel, d>> \in Clients \X RoomSeqs \X {<<0, 1>>, <<1, 2>>} : Len(sel) = 1}

CreateForBilling ==
    \E inp \in BillingInputs, dep \in Deposits, pm \in PaymentMethods :
        CreateBooking(inp[1], inp[2], inp[3][1], inp[3][2], dep, pm)

Next == Create \/ Update \/ Delete

\* The requests of the runs with maintenance: ranges before, at and after
\* the first blocked night, and the malformed ones.
MaintDates == {<<0, 1>>, <<0, 2>>, <<1, 2>>, <<2, 3>>, <<1, 1>>}

MaintInputs ==
    {<<c, sel, d>> \in Clients \X RoomSeqs \X MaintDates : Len(sel) > 0}
        \cup {<<NoClient, <<1>>, <<0, 1>>>>, <<"c1", <<>>, <<0, 1>>>>}

CreateWithMaint ==
    \E inp \in MaintInputs :
        CreateBooking(inp[1], inp[2], inp[3][1], inp[3][2], 0, "")

UpdateWithMaint ==
    \E b \in DOMAIN bookings, sel \in RoomSeqs, d \in MaintDates :
        UpdateBooking(b, sel, d[1], d[2], bookings[b].deposit,
                      bookings[b].payment_method)

NextMaint ==
    CreateWithMaint \/ UpdateWithMaint \/ Delete \/ Maintenance \/ Block

\* The booking ledger, one handler at a time.
Spec == Init /\ [][Next]_vars

\* The requests of the concurrent runs.
RaceInputs == {<<1>>, <<1, 2>>} \X {<<0, 2>>, <<1, 3>>, <<2, 3>>}

NextRace ==
    \/ \E s \in Sessions, inp \in RaceInputs :
            BeginCreate(s, "c1", inp[1], inp[2][1], inp[2][2])
    \/ \E s \in Sessions : CreateCheck(s)
    \/ \E s \in Sessions : CreateInsert(s)
    \/ \E s \in Sessions : CreateLog(s)
    \/ \E s \in Sessions, b \in DOMAIN bookings, inp \in RaceInputs :
            BeginUpdate(s, b, inp[1], inp[2][1], inp[2][2])
    \/ \E s \in Sessions : UpdateCheck(s)
    \/ \E s \in Sessions : UpdateCommit(s)
    \/ \E s \in Sessions : UpdateLog(s)

\* The booking ledger with two sessions whose handlers interleave.
SpecRace == Init /\ [][NextRace]_vars

\* A booking for the payment runs to act on: a free room, one night.
CreateForRuns ==
    \E sel \in {<<1>>, <<2>>} :
        /\ ~CreateUnavailable(sel[1], 0, 1)
        /\ CreateBooking("c1", sel, 0, 1, 0, "")

NextPayRace ==
    \/ CreateForRuns
    \/ Delete
    \/ \E s \in Sessions, b \in DOMAIN bookings : BeginPay(s, b)
    \/ \E s \in Sessions, b \in DOMAIN bookings : BeginPdf(s, b)
    \/ \E s \in Sessions : SeqRead(s)
    \/ \E s \in Sessions : SeqBump(s)
    \/ \E s \in Sessions : InvoiceCommit(s)
    \/ \E s \in Sessions : PayCommit(s)
    \/ \E s \in Sessions : PayLog(s)

\* Payment and invoicing with two sessions whose handlers interleave.
SpecPayRace == Init /\ [][NextPayRace]_vars

\* The booking ledger with maintenance flags and blocks, one handler at a
\* time.
SpecMaint == Init /\ [][NextMaint]_vars

NextBilling == CreateForBilling \/ Pay \/ Pdf \/ Extras \/ Delete \/ Tick

\* Payment and invoicing, one handler at a time.
SpecBilling == Init /\ [][NextBilling]_vars
\* The prices the forms are given in the runs with price changes.
Prices == {95, 120}

Price == \E r \in Rooms, p \in Prices : SetPrice(r, p)

RoomSave == \E r \in Rooms, p \in Prices : SaveRoom(r, p, rooms[r].maintenance)

\* The requests of the runs with price changes: two adjacent nights.
PriceInputs ==
    {<<sel, d>> \in RoomSeqs \X {<<0, 1>>, <<1, 2>>} : Len(sel) > 0}

CreateForPrice ==
    \E inp \in PriceInputs :
        CreateBooking("c1", inp[1], inp[2][1], inp[2][2], 0, "")

UpdateForPrice ==
    \E b \in DOMAIN bookings, inp \in PriceInputs :
        UpdateBooking(b, inp[1], inp[2][1], inp[2][2], bookings[b].deposit,
                      bookings[b].payment_method)

NextPrice == CreateForPrice \/ UpdateForPrice \/ Delete \/ Price \/ RoomSave

\* The booking ledger with price changes, one handler at a time.
SpecPrice == Init /\ [][NextPrice]_vars

\* The requests of the runs that show amounts: one or two rooms, one or two
\* nights, and a deposit below or above what a stay costs.
TotalsDeposits == {0, 50, 300}

TotalsInputs == {<<1>>, <<1, 2>>} \X {<<0, 1>>, <<1, 3>>}

CreateForTotals ==
    \E inp \in TotalsInputs, dep \in TotalsDeposits :
        CreateBooking("c1", inp[1], inp[2][1], inp[2][2], dep, "")

UpdateForTotals ==
    \E b \in DOMAIN bookings, inp \in TotalsInputs, dep \in TotalsDeposits :
        UpdateBooking(b, inp[1], inp[2][1], inp[2][2], dep,
                      bookings[b].payment_method)

NextTotals == CreateForTotals \/ UpdateForTotals \/ Extras \/ Price

\* The booking ledger with the values the amounts are derived from, one
\* handler at a time.
SpecTotals == Init /\ [][NextTotals]_vars

\* The requests of the runs that edit billed bookings: one room, one of two
\* adjacent nights.
EditInputs == {<<1>>, <<2>>} \X {<<0, 1>>, <<1, 2>>}

CreateForEdit ==
    \E inp \in EditInputs :
        CreateBooking("c1", inp[1], inp[2][1], inp[2][2], 0, "")

UpdateForEdit ==
    \E b \in DOMAIN bookings, inp \in EditInputs, dep \in Deposits,
       pm \in PaymentMethods :
        UpdateBooking(b, inp[1], inp[2][1], inp[2][2], dep, pm)

NextEdit == CreateForEdit \/ UpdateForEdit \/ Pay \/ Pdf \/ Extras

\* The booking ledger with payments and edits, one handler at a time.
SpecEdit == Init /\ [][NextEdit]_vars

\* The edits of the runs with flagged rooms: each with any deposit and any
\* payment method of the form.
UpdateForFlag ==
    \E b \in DOMAIN bookings, inp \in EditInputs, dep \in Deposits,
       pm \in PaymentMethods :
        UpdateBooking(b, inp[1], inp[2][1], inp[2][2], dep, pm)

NextFlag == CreateForEdit \/ UpdateForFlag \/ Delete \/ Maintenance

\* The booking ledger with the maintenance switch, one handler at a time.
SpecFlag == Init /\ [][NextFlag]_vars

\* ------------------------------------------------------------------ claims
\* The nights of the half-open range [checkin, checkout).
Nights(checkin, checkout) == {d \in Days : checkin <= d /\ d < checkout}

NightsOf(b) == Nights(bookings[b].checkin, bookings[b].checkout)

\* The bookings that hold room r.
Holding(r) == {b \in DOMAIN bookings : r \in RoomIdsOf(b)}

\* Unavailability as the specification words it: the flag, a block that
\* overlaps, or a booking other than the excluded one that overlaps.
SpecUnavailable(r, checkin, checkout, exclude) ==
    \/ rooms[r].maintenance = TRUE
    \/ \E bl \in blocks :
            bl.room_id = r /\ bl.end > checkin /\ bl.start < checkout
    \/ \E b \in Holding(r) \ exclude :
            bookings[b].checkout > checkin /\ bookings[b].checkin < checkout

\* C1: with one handler at a time, two distinct bookings that hold the same
\* room never share a night.
C1_NoDoubleBooking ==
    \A b1, b2 \in DOMAIN bookings :
        b1 # b2 =>
            \A r \in RoomIdsOf(b1) \cap RoomIdsOf(b2) :
                NightsOf(b1) \cap NightsOf(b2) = {}

\* C1 witness: an edit has succeeded while two bookings hold the same room.
C1_Witness ==
    /\ last.op = "update"
    /\ last.outcome = "ok"
    /\ \E b \in DOMAIN bookings :
            b # last.bid /\ RoomIdsOf(b) \cap RoomIdsOf(last.bid) # {}

\* The well-formed ranges.
Ranges == {d \in Days \X Days : d[2] > d[1]}

\* The non-empty room selections.
Selections == {sel \in RoomSeqs : Len(sel) > 0}

\* C6: a create request that names an unavailable room is refused, and the
\* refusal writes no booking and no booking room and leaves every room as
\* available as it was.
C6_CreateAllOrNothing ==
    /\ [](\A sel \in Selections, d \in Ranges :
            (\E i \in 1..Len(sel) : SpecUnavailable(sel[i], d[1], d[2], {}))
                => CreateOutcome("c1", sel, d[1], d[2]) = "refused")
    /\ [][(last'.op = "create" /\ last'.outcome = "refused") =>
            /\ bookings' = bookings
            /\ booking_rooms' = booking_rooms
            /\ \A r \in Rooms, d \in Ranges :
                    SpecUnavailable(r, d[1], d[2], {})'
                        <=> SpecUnavailable(r, d[1], d[2], {})
       ]_vars

\* C6 witness: a request for two rooms, one of them unavailable, was refused.
C6_Witness ==
    /\ last.op = "create"
    /\ last.outcome = "refused"
    /\ Len(last.sel) = 2
    /\ Len(last.msg) = 1

\* C7: for every room, range and excluded booking, the create and edit
\* handlers find the room unavailable exactly when the flag is set, a block
\* overlaps the range or another booking overlaps it.
C7_AvailabilityDecision ==
    \A r \in Rooms, checkin \in Days, checkout \in Days :
        /\ CreateUnavailable(r, checkin, checkout)
                <=> SpecUnavailable(r, checkin, checkout, {})
        /\ \A b \in DOMAIN bookings :
                (Problem(r, checkin, checkout, {b}) # "")
                    <=> SpecUnavailable(r, checkin, checkout, {b})

\* C7 witness: an edit went through on a room that only the edited booking
\* makes unavailable, while a block and a flag make the other room so.
C7_Witness ==
    /\ last.op = "update"
    /\ last.outcome = "ok"
    /\ \E r \in RoomIdsOf(last.bid) :
            /\ SpecUnavailable(r, bookings[last.bid].checkin,
                               bookings[last.bid].checkout, {})
            /\ ~SpecUnavailable(r, bookings[last.bid].checkin,
                                bookings[last.bid].checkout, {last.bid})
    /\ \E bl \in blocks : TRUE

\* Room r holds booking b and is otherwise free.
HeldOnlyBy(r, b) ==
    /\ Holding(r) = {b}
    /\ ~rooms[r].maintenance
    /\ \A bl \in blocks : bl.room_id # r

\* C8: on a room that holds one booking [a, b) and is otherwise free, a
\* create request for a range that touches it ([b, c) or [z, a)) goes
\* through, and one for a range that shares a night with it is refused.
C8_TouchingNeverConflicts ==
    \A r \in Rooms, b \in DOMAIN bookings, d \in Ranges :
        HeldOnlyBy(r, b) =>
            /\ (d[1] = bookings[b].checkout \/ d[2] = bookings[b].checkin)
                    => CreateOutcome("c1", <<r>>, d[1], d[2]) = "ok"
            /\ (Nights(d[1], d[2]) \cap NightsOf(b) # {})
                    => CreateOutcome("c1", <<r>>, d[1], d[2]) = "refused"

\* C8 witness: a create has just put a booking right after another one on
\* the same room.
C8_Witness ==
    /\ last.op = "create"
    /\ last.outcome = "ok"
    /\ \E b \in DOMAIN bookings :
            /\ b # last.bid
            /\ RoomIdsOf(b) \cap RoomIdsOf(last.bid) # {}
            /\ bookings[b].checkout = bookings[last.bid].checkin

\* Room r has the one block bl and is otherwise free.
BlockedOnlyBy(r, bl) ==
    /\ {x \in blocks : x.room_id = r} = {bl}
    /\ ~rooms[r].maintenance
    /\ Holding(r) = {}

\* C9: on a room with one block [s, e) and otherwise free, a create request
\* for a range ending at s goes through, and one for a range that starts at
\* s or shares a night with the block is refused, naming the blocked period,
\* and the refusal writes nothing.
C9_BlockBoundary ==
    /\ [](\A r \in Rooms, bl \in blocks, d \in Ranges :
            BlockedOnlyBy(r, bl) =>
                /\ (d[2] = bl.start)
                        => CreateOutcome("c1", <<r>>, d[1], d[2]) = "ok"
                /\ (d[1] = bl.start
                        \/ Nights(d[1], d[2]) \cap Nights(bl.start, bl.end) # {})
                        => /\ CreateOutcome("c1", <<r>>, d[1], d[2]) = "refused"
                           /\ CreateProblems(<<r>>, d[1], d[2])
                                = <<(<<r, "periode travaux">>)>>)
    /\ [][(last'.op = "create" /\ last'.outcome = "refused") => UNCHANGED db
       ]_vars

\* C9 witness: a create for a blocked room was refused for the blocked
\* period, while a booking that ends the day the block starts is in place.
C9_Witness ==
    /\ last.op = "create"
    /\ last.outcome = "refused"
    /\ \E bl \in blocks :
            /\ last.msg = <<(<<bl.room_id, "periode travaux">>)>>
            /\ \E b \in Holding(bl.room_id) : bookings[b].checkout = bl.start

\* C10: every persisted booking owns at least one booking room.
C10_BookingHasRoom ==
    \A b \in DOMAIN bookings : RoomIdsOf(b) # {}

\* C2: when create and edit requests for the same room and overlapping
\* ranges run at the same time, at most one of them is committed: no two
\* bookings that hold the same room have ranges that overlap.
C2_ConcurrentRequestsExclusive ==
    \A r \in Rooms :
        \A b1 \in Holding(r), b2 \in Holding(r) :
            b1 < b2 =>
                ~(/\ bookings[b1].checkout > bookings[b2].checkin
                  /\ bookings[b1].checkin < bookings[b2].checkout)

\* C3: no two calls of next_invoice_number return the same counter value,
\* however the calls of two sessions interleave.
C3_NoDuplicateCounter ==
    \A i \in 1..Len(issued), j \in 1..Len(issued) :
        i # j => issued[i][2] # issued[j][2]

\* C4: with one handler at a time, the counter values of the invoice numbers
\* issued are distinct and increasing in the order of issue, also across
\* deletions and month changes; every one is below the stored counter, and
\* the stored counter never goes down and moves only when a number is
\* issued, by one.
C4_InvoiceCounterMonotonic ==
    /\ [](/\ \A i \in 1..Len(issued), j \in 1..Len(issued) :
                i < j => issued[i][2] < issued[j][2]
          /\ \A i \in 1..Len(issued) : issued[i][2] < invoice_seq
          /\ \A b \in DOMAIN bookings :
                bookings[b].invoice_number # <<>>
                    => bookings[b].invoice_number \in Range(issued))
    /\ [][/\ invoice_seq' >= invoice_seq
          /\ IF issued' # issued
             THEN /\ invoice_seq' = invoice_seq + 1
                  /\ issued' = Append(issued, <<now, invoice_seq>>)
             ELSE invoice_seq' = invoice_seq
       ]_vars

\* C4 witness: a number was issued, the booking that held it was deleted,
\* the month changed and a booking made since was given the next number.
C4_Witness ==
    /\ Len(issued) = 2
    /\ issued[1][1] # issued[2][1]
    /\ \A b \in DOMAIN bookings : bookings[b].invoice_number # issued[1]
    /\ \E b \in DOMAIN bookings : bookings[b].invoice_number = issued[2]

\* C5: a payment requested for a booking that is already paid returns the
\* invoice number the booking holds, which is the one the first payment
\* returned, and changes neither the booking nor the counter nor any other
\* stored value.
C5_MarkPaidIdempotent ==
    /\ []((last.op = "pay" /\ last.outcome = "ok" /\ last.bid \in DOMAIN bookings)
            => /\ bookings[last.bid].paid
               /\ last.ret # <<>>
               /\ last.ret = bookings[last.bid].invoice_number)
    /\ [][\A b \in DOMAIN bookings :
            (bookings[b].paid /\ MarkPaid(b))
                => /\ UNCHANGED db
                   /\ last'.ret = bookings[b].invoice_number
                   /\ (last.op = "pay" /\ last.bid = b) => last'.ret = last.ret
       ]_vars

\* C5 witness: a second payment was requested in a later month than the one
\* the booking was paid in.
C5_Witness ==
    /\ last.op = "pay"
    /\ last.outcome = "already_paid"
    /\ last.bid \in DOMAIN bookings
    /\ bookings[last.bid].paid
    /\ bookings[last.bid].paid_at # <<now>>
    /\ last.ret = bookings[last.bid].invoice_number

\* C11: every stored booking has checkout > checkin; a create or an edit
\* request with checkout <= checkin is turned down, and turning it down
\* changes no stored value.
C11_DatesOrdered ==
    /\ [](/\ \A b \in DOMAIN bookings :
                bookings[b].checkout > bookings[b].checkin
          /\ \A sel \in RoomSeqs, ci \in Days, co \in Days :
                co <= ci =>
                    /\ CreateOutcome("c1", sel, ci, co) = "disabled"
                    /\ \A b \in DOMAIN bookings :
                            UpdateOutcome(b, sel, ci, co) = "invalid")
    /\ [][(\/ last'.op = "create" /\ last'.outcome = "disabled"
           \/ last'.op = "update" /\ last'.outcome = "invalid")
            => UNCHANGED db
       ]_vars

\* C11 witness: an edit with bad dates was turned down on a stored booking.
C11_Witness ==
    /\ last.op = "update"
    /\ last.outcome = "invalid"
    /\ last.bid \in DOMAIN bookings

\* C12: every booking room belongs to a stored booking; a create writes the
\* booking and all of its rooms in the same step, and a delete removes the
\* booking and all of its rooms in the same step.
C12_NoOrphanBookingRoom ==
    /\ [](\A br \in booking_rooms : br.booking_id \in DOMAIN bookings)
    /\ [][/\ \A b \in DOMAIN bookings' \ DOMAIN bookings :
                {br.room_id : br \in {x \in booking_rooms' : x.booking_id = b}}
                    = Range(last'.sel)
          /\ \A b \in DOMAIN bookings \ DOMAIN bookings' :
                {x \in booking_rooms' : x.booking_id = b} = {}
       ]_vars

\* C12 witness: a booking with two rooms was deleted while another one stays.
C12_Witness ==
    /\ last.op = "delete"
    /\ last.bid \notin DOMAIN bookings
    /\ \E b \in DOMAIN bookings : Cardinality(RoomsOf(b)) = 2

\* The step is the delete handler acting on booking b.
DeleteStep(b) ==
    /\ b \in DOMAIN bookings
    /\ last'.op = "delete"
    /\ last'.bid = b
    /\ audit_logs' # audit_logs

\* C13 as stated: right after a booking is deleted, each of its rooms is
\* available for the booking's range.
C13_DeleteFreesRooms ==
    [][\A b \in DOMAIN bookings, r \in Rooms, ci \in Days, co \in Days :
            (/\ DeleteStep(b)
             /\ r \in RoomIdsOf(b)
             /\ ci = bookings[b].checkin
             /\ co = bookings[b].checkout)
                => ~(CreateUnavailable(r, ci, co))'
      ]_vars

\* C13 amended: right after a booking is deleted, no booking conflicts with
\* its range on any of its rooms, and each of its rooms is available for that
\* range unless the room's flag is set or a block of the room overlaps it.
C13_DeleteFreesRoomsOfBookings ==
    [][\A b \in DOMAIN bookings, r \in Rooms, ci \in Days, co \in Days :
            (/\ DeleteStep(b)
             /\ r \in RoomIdsOf(b)
             /\ ci = bookings[b].checkin
             /\ co = bookings[b].checkout)
                => /\ ~(booking_conflicts_for_room(r, ci, co, {}))'
                   /\ (CreateUnavailable(r, ci, co))'
                        <=> (\/ rooms'[r].maintenance
                             \/ (room_blocked_in_range(r, ci, co))')
      ]_vars

\* C13 witness: the one booking made was deleted, after the flag of a room
\* was set, and no booking is left.
C13_Witness ==
    /\ last.op = "delete"
    /\ last.bid = 1
    /\ next_booking_id = 2
    /\ DOMAIN bookings = {}
    /\ \E r \in Rooms : rooms[r].maintenance

\* C14: a booking room is written with the price its room has at that
\* moment, and a change of a room's price, from the room controls or from
\* the settings page, leaves every booking room as it was.
C14_PriceSnapshot ==
    [][/\ \A br \in booking_rooms' \ booking_rooms :
                br.price_per_night = rooms[br.room_id].price
       /\ (\E r \in Rooms : rooms'[r].price # rooms[r].price)
                => booking_rooms' = booking_rooms
      ]_vars

\* C14 witness: the price of a room was just changed and a booking room of
\* that room holds the earlier price.
C14_Witness ==
    /\ last.op \in {"price", "room"}
    /\ \E br \in booking_rooms :
            br.price_per_night # rooms[br.room_id].price

\* The step is the edit handler writing booking b.
UpdateStep(b) ==
    /\ b \in DOMAIN bookings
    /\ last'.op = "update"
    /\ last'.outcome = "ok"
    /\ last'.bid = b
    /\ audit_logs' # audit_logs

\* C15: after an edit of a booking with rooms O to the selection N, the
\* booking has one row for each room of N and no other; the rows of the
\* rooms it keeps are the rows it had, price included, the rows of the new
\* rooms carry the room's current price, and the rows of the other bookings
\* are as they were.
C15_UpdateReplacesRoomSet ==
    [][\A b \in DOMAIN bookings :
            UpdateStep(b) =>
                /\ (RoomIdsOf(b))' = Range(last'.sel)
                /\ Cardinality((RoomsOf(b))') = Len(last'.sel)
                /\ \A br \in (RoomsOf(b))' :
                        IF br.room_id \in RoomIdsOf(b)
                        THEN br \in RoomsOf(b)
                        ELSE br.price_per_night = rooms'[br.room_id].price
                /\ booking_rooms' \ (RoomsOf(b))' = booking_rooms \ RoomsOf(b)
      ]_vars

\* C15 witness: an edit added a room to a booking and kept a room whose
\* price had changed since the booking was made.
C15_Witness ==
    /\ last.op = "update"
    /\ last.outcome = "ok"
    /\ Len(last.sel) = 2
    /\ \E br \in RoomsOf(last.bid) :
            br.price_per_night # rooms[br.room_id].price

\* C16: an edit that moves a booking, on the rooms it holds, to a range that
\* shares a night with its own range goes through when neither a flag nor a
\* block nor another booking makes one of the rooms unavailable, and is
\* refused when another booking on one of the rooms overlaps the new range.
C16_UpdateExcludesSelf ==
    \A b \in DOMAIN bookings, sel \in Selections, d \in Ranges :
        (/\ Range(sel) = RoomIdsOf(b)
         /\ Nights(d[1], d[2]) \cap NightsOf(b) # {})
            => /\ (\A i \in 1..Len(sel) :
                        ~SpecUnavailable(sel[i], d[1], d[2], {b}))
                    => UpdateOutcome(b, sel, d[1], d[2]) = "ok"
               /\ (\E i \in 1..Len(sel) :
                        \E b2 \in Holding(sel[i]) \ {b} :
                            /\ bookings[b2].checkout > d[1]
                            /\ bookings[b2].checkin < d[2])
                    => UpdateOutcome(b, sel, d[1], d[2]) = "refused"

\* C16 witness: an edit went through on a booking of two nights or more
\* that shares a room with another booking.
C16_Witness ==
    /\ last.op = "update"
    /\ last.outcome = "ok"
    /\ last.bid \in DOMAIN bookings
    /\ bookings[last.bid].checkout > bookings[last.bid].checkin + 1
    /\ \E b2 \in DOMAIN bookings :
            /\ b2 # last.bid
            /\ RoomIdsOf(b2) \cap RoomIdsOf(last.bid) # {}

\* The rooms an error message names.
Named(msg) == {msg[i][1] : i \in 1..Len(msg)}

\* The reasons the specification allows for room r.
Reasons(r, checkin, checkout, exclude) ==
    (IF rooms[r].maintenance THEN {"travaux global"} ELSE {})
        \cup (IF \E bl \in blocks : bl.room_id = r /\ bl.end > checkin
                                    /\ bl.start < checkout
              THEN {"periode travaux"} ELSE {})
        \cup (IF \E b \in Holding(r) \ exclude :
                    bookings[b].checkout > checkin /\ bookings[b].checkin < checkout
              THEN {"deja reservee"} ELSE {})

\* C17: the error of a create or an edit request refused for availability
\* names every requested room that is unavailable, each with a reason that
\* applies to it.
C17_ErrorNamesEveryRoom ==
    \A sel \in Selections, d \in Ranges :
        /\ CreateOutcome("c1", sel, d[1], d[2]) = "refused"
            => LET msg == CreateProblems(sel, d[1], d[2])
               IN  /\ Named(msg) = {r \in Range(sel) :
                                        SpecUnavailable(r, d[1], d[2], {})}
                   /\ \A i \in 1..Len(msg) :
                        msg[i][2] \in Reasons(msg[i][1], d[1], d[2], {})
        /\ \A b \in DOMAIN bookings :
            UpdateOutcome(b, sel, d[1], d[2]) = "refused"
                => LET msg == FirstProblem(sel, d[1], d[2], {b})
                   IN  /\ Named(msg) = {r \in Range(sel) :
                                            SpecUnavailable(r, d[1], d[2], {b})}
                       /\ \A i \in 1..Len(msg) :
                            msg[i][2] \in Reasons(msg[i][1], d[1], d[2], {b})

\* C18: the invoice counter moves only in a payment of a booking that was
\* unpaid, and every such payment moves it, by one.
C18_CounterOnlyAtFirstPayment ==
    [][/\ invoice_seq' # invoice_seq
            => /\ last'.op = "pay"
               /\ last'.outcome = "ok"
               /\ last'.bid \in DOMAIN bookings
               /\ ~bookings[last'.bid].paid
       /\ \A b \in DOMAIN bookings :
            (~bookings[b].paid /\ MarkPaid(b))
                => invoice_seq' = invoice_seq + 1
      ]_vars

Tag ==
    [create |-> "BOOKING_CREATE", update |-> "BOOKING_UPDATE",
     delete |-> "BOOKING_DELETE", extras |-> "BOOKING_EXTRAS",
     pay |-> "BOOKING_PAID"]

\* C20: every step that writes a booking, a booking room or the invoice
\* counter appends one audit entry, with the tag of the handler when the
\* handler has one, and no step appends more than one.
C20_OneAuditEntryPerAction ==
    [][/\ (\/ bookings' # bookings
           \/ booking_rooms' # booking_rooms
           \/ invoice_seq' # invoice_seq)
            => /\ Len(audit_logs') = Len(audit_logs) + 1
               /\ SubSeq(audit_logs', 1, Len(audit_logs)) = audit_logs
               /\ last'.op \in DOMAIN Tag
                    => audit_logs'[Len(audit_logs')].action = Tag[last'.op]
       /\ Len(audit_logs') <= Len(audit_logs) + 1
      ]_vars

\* C21: across every step the audit entries already written stay as they
\* are and in their order; the log only grows.
C21_AuditAppendOnly ==
    [][/\ Len(audit_logs') >= Len(audit_logs)
       /\ SubSeq(audit_logs', 1, Len(audit_logs)) = audit_logs
      ]_vars

\* C21 witness: a booking was made, paid and deleted, each with its entry
\* after the two entries of the initialisation.
C21_Witness ==
    /\ Len(audit_logs) = 5
    /\ audit_logs[1].action = "INIT"
    /\ audit_logs[3].action = "BOOKING_CREATE"
    /\ audit_logs[4].action = "BOOKING_PAID"
    /\ audit_logs[5].action = "BOOKING_DELETE"

\* C22: in every committed state a paid booking has an invoice number, and
\* every number the counter was advanced for is held by a booking, unless
\* the booking it was drawn for has been deleted.
C22_PaidHasInvoiceNumber ==
    /\ \A b \in DOMAIN bookings :
            bookings[b].paid => bookings[b].invoice_number # <<>>
    /\ DOMAIN bookings = 1..(next_booking_id - 1)
            => \A i \in 1..Len(issued) :
                    \E b \in DOMAIN bookings :
                        bookings[b].invoice_number = issued[i]

\* C23: no two booking rooms have the same booking and the same room.
C23_UniqueBookingRoom ==
    \A br1 \in booking_rooms, br2 \in booking_rooms :
        (br1.booking_id = br2.booking_id /\ br1.room_id = br2.room_id)
            => br1 = br2

\* C23 witness: an edit kept a room of the booking, whose price is no
\* longer the one of the row, and added the other room.
C23_Witness ==
    /\ last.op = "update"
    /\ last.outcome = "ok"
    /\ Cardinality(RoomsOf(last.bid)) = 2
    /\ \E br \in RoomsOf(last.bid) :
            /\ br.price_per_night = 95
            /\ rooms[br.room_id].price = 120

\* The price of the row of booking b for room r, 0 when it has none.
RowPrice(b, r) ==
    IF r \in RoomIdsOf(b)
    THEN (CHOOSE br \in RoomsOf(b) : br.room_id = r).price_per_night
    ELSE 0

\* The sum of RowPrice(b, r) over the rooms r of R.
RECURSIVE SumOverRooms(_, _)
SumOverRooms(b, R) ==
    IF R = {} THEN 0
    ELSE LET r == CHOOSE x \in R : TRUE
         IN  RowPrice(b, r) + SumOverRooms(b, R \ {r})

\* C24: for every booking the amounts shown are nights = max(0, checkout -
\* checkin), the sum of the prices of its rows times the nights, that plus
\* the extras, and what is left of it after the deposit, floored at zero;
\* nights and what is left are never negative, for any pair of dates and
\* also when the deposit exceeds the total.
C24_DerivedAmounts ==
    /\ \A ci \in Days, co \in Days :
            /\ nights_count(ci, co) >= 0
            /\ co > ci => nights_count(ci, co) = co - ci
            /\ co <= ci => nights_count(ci, co) = 0
    /\ \A b \in DOMAIN bookings :
            LET n == IF bookings[b].checkout - bookings[b].checkin > 0
                     THEN bookings[b].checkout - bookings[b].checkin ELSE 0
                rt == SumOverRooms(b, Rooms) * n
                t == rt + bookings[b].extras
            IN  /\ total_rooms(b) = rt
                /\ total(b) = t
                /\ remaining(b) >= 0
                /\ bookings[b].deposit >= t => remaining(b) = 0
                /\ bookings[b].deposit < t
                        => remaining(b) = t - bookings[b].deposit

\* C24 witness: a booking of two nights with extras, on a room whose price
\* was raised first, and with a deposit that exceeds its total.
C24_Witness ==
    \E b \in DOMAIN bookings :
        /\ \E br \in RoomsOf(b) : br.price_per_night = 120
        /\ bookings[b].checkout = bookings[b].checkin + 2
        /\ bookings[b].extras > 0
        /\ total(b) > 0
        /\ bookings[b].deposit > total(b)

\* C25: the invoice number of a booking, once it is not empty, is the same
\* after every step, whichever sessions take the steps.
C25_InvoiceNumberImmutable ==
    [][\A b \in DOMAIN bookings \cap DOMAIN bookings' :
            bookings[b].invoice_number # <<>>
                => bookings'[b].invoice_number = bookings[b].invoice_number
      ]_vars

\* C26: an edit that goes through leaves, of the booking it edits, the
\* client, the extras, the paid flag, the payment time, the invoice number
\* and the creator as they were; it leaves every other booking and its rows,
\* the rooms, the blocks and the invoice counter as they were.
C26_UpdateFrame ==
    [][\A b \in DOMAIN bookings :
            UpdateStep(b) =>
                /\ DOMAIN bookings' = DOMAIN bookings
                /\ bookings'[b] = [bookings[b] EXCEPT
                        !.checkin = bookings'[b].checkin,
                        !.checkout = bookings'[b].checkout,
                        !.deposit = bookings'[b].deposit,
                        !.payment_method = bookings'[b].payment_method]
                /\ \A b2 \in DOMAIN bookings \ {b} :
                        /\ bookings'[b2] = bookings[b2]
                        /\ (RoomsOf(b2))' = RoomsOf(b2)
                /\ UNCHANGED <<rooms, blocks, invoice_seq, issued,
                               next_booking_id>>
      ]_vars

\* C26 witness: an edit changed the deposit and the payment method of a
\* booking that has an invoice number, while another booking is stored.
C26_Witness ==
    /\ last.op = "update"
    /\ last.outcome = "ok"
    /\ last.bid \in DOMAIN bookings
    /\ bookings[last.bid].invoice_number # <<>>
    /\ bookings[last.bid].deposit = 50
    /\ bookings[last.bid].payment_method = "CB"
    /\ Cardinality(DOMAIN bookings) = 2

\* C27: the stored invoice counter is at least 1 and above the counter
\* value of every invoice number issued and of every one a booking holds,
\* whichever sessions take the steps.
C27_CounterAboveIssued ==
    /\ invoice_seq >= 1
    /\ \A i \in 1..Len(issued) : issued[i][2] < invoice_seq
    /\ \A b \in DOMAIN bookings :
            bookings[b].invoice_number # <<>>
                => bookings[b].invoice_number[2] < invoice_seq

\* C28: a change of a room's flag leaves every booking and every booking
\* room as it was; while the flag of a room is set, every edit whose
\* selection holds that room is refused and changes nothing, whatever
\* deposit and payment method it carries, the edit that keeps the rooms and
\* the dates of the booking included.
C28_MaintenanceFlagBlocksEdits ==
    /\ [](\A r \in Rooms, b \in DOMAIN bookings, sel \in Selections,
            d \in Ranges :
            (rooms[r].maintenance /\ r \in Range(sel))
                => UpdateOutcome(b, sel, d[1], d[2]) = "refused")
    /\ [][/\ (\E r \in Rooms : rooms'[r].maintenance # rooms[r].maintenance)
                => /\ bookings' = bookings
                   /\ booking_rooms' = booking_rooms
          /\ \A b \in DOMAIN bookings, sel \in Selections, d \in Ranges,
                dep \in Deposits, pm \in PaymentMethods :
                (/\ \E r \in Range(sel) : rooms[r].maintenance
                 /\ UpdateBooking(b, sel, d[1], d[2], dep, pm))
                    => /\ last'.outcome = "refused"
                       /\ UNCHANGED db
       ]_vars

\* C28 witness: an edit that keeps the room of the booking and its dates was
\* refused because the flag of that room is set.
C28_Witness ==
    /\ last.op = "update"
    /\ last.outcome = "refused"
    /\ last.bid \in DOMAIN bookings
    /\ Range(last.sel) = RoomIdsOf(last.bid)
    /\ \E r \in RoomIdsOf(last.bid) :
            /\ rooms[r].maintenance
            /\ last.msg = <<(<<r, "travaux global">>)>>
====
